---- MODULE Spec2Model ----
(***************************************************************************)
(* A model of the codeowners library (src/src/lib.rs) and of its command   *)
(* line front end (src/cli/src/main.rs).                                   *)
(*                                                                         *)
(* Text is modelled by TLA+ strings, read one character at a time with     *)
(* SubSeq, so that parsing, normalising and glob matching are computed on  *)
(* the characters, as the code computes them.                              *)
(***************************************************************************)
EXTENDS Integers, Sequences, FiniteSets, TLC

(***************************************************************************)
(* Bounds of the model.                                                    *)
(***************************************************************************)
\* the longest token handed to Owner::from_str and to pattern
MaxTokLen == 4
\* the largest number of lines of a CODEOWNERS stream
MaxLines == 2
\* the largest number of segments of a query path
MaxDepth == 3

(***************************************************************************)
(* str helpers (std): the methods of str the code calls.                   *)
(***************************************************************************)
Ch(s, i) == SubSeq(s, i, i)

Rest(s) == SubSeq(s, 2, Len(s))

is_empty(s) == Len(s) = 0

starts_with(s, pre) == Len(s) >= Len(pre) /\ SubSeq(s, 1, Len(pre)) = pre

ends_with(s, suf) ==
    Len(s) >= Len(suf) /\ SubSeq(s, Len(s) - Len(suf) + 1, Len(s)) = suf

contains(s, c) == \E i \in 1..Len(s) : Ch(s, i) = c

\* str::trim_start_matches(c): removes every leading repetition of c
RECURSIVE trim_start_matches(_, _)
trim_start_matches(s, c) ==
    IF starts_with(s, c) THEN trim_start_matches(Rest(s), c) ELSE s

is_whitespace(c) == c = " "

\* str::split_whitespace: the maximal runs of non-whitespace, in order
RECURSIVE split_from(_, _, _)
split_from(s, cur, acc) ==
    IF s = "" THEN (IF cur = "" THEN acc ELSE Append(acc, cur))
    ELSE IF is_whitespace(Ch(s, 1))
         THEN split_from(Rest(s), "", IF cur = "" THEN acc ELSE Append(acc, cur))
         ELSE split_from(Rest(s), cur \o Ch(s, 1), acc)

split_whitespace(s) == split_from(s, "", <<>>)

\* the strings over alphabet A of length at most n
RECURSIVE Strs(_, _)
Strs(A, n) ==
    IF n = 0 THEN {""}
    ELSE LET S == Strs(A, n - 1) IN S \cup {s \o c : s \in S, c \in A}

(***************************************************************************)
(* Owner and its FromStr (lib.rs 61-104).                                  *)
(***************************************************************************)
NonSpace(s, i, j) == \A k \in i..j : ~is_whitespace(Ch(s, k))

\* TEAM: ^@\S+/\S+   (is_match: a match starting at the first character)
TEAM_is_match(s) ==
    /\ starts_with(s, "@")
    /\ \E j \in 3..(Len(s) - 1) :
          /\ Ch(s, j) = "/"
          /\ NonSpace(s, 2, j - 1)
          /\ NonSpace(s, j + 1, j + 1)

\* USERNAME: ^@\S+
USERNAME_is_match(s) ==
    starts_with(s, "@") /\ Len(s) >= 2 /\ NonSpace(s, 2, 2)

\* EMAIL: ^\S+@\S+
EMAIL_is_match(s) ==
    \E j \in 2..(Len(s) - 1) :
        /\ Ch(s, j) = "@"
        /\ NonSpace(s, 1, j - 1)
        /\ NonSpace(s, j + 1, j + 1)

\* Result<Owner, String>: ok with the variant and its text, or the error
from_str(s) ==
    IF TEAM_is_match(s) THEN [ok |-> TRUE, kind |-> "Team", text |-> s]
    ELSE IF USERNAME_is_match(s) THEN [ok |-> TRUE, kind |-> "Username", text |-> s]
    ELSE IF EMAIL_is_match(s) THEN [ok |-> TRUE, kind |-> "Email", text |-> s]
    ELSE [ok |-> FALSE, kind |-> "Err", text |-> "not an owner"]

(***************************************************************************)
(* glob::Pattern (the glob crate, as used at lib.rs 132-137, 150, 263).    *)
(***************************************************************************)
\* std::path::is_separator on the platforms the tests run on
is_separator(c) == c = "/"

\* the characters the model draws, in ASCII order (for char ranges); of the
\* letters only a, b, A and B are drawn
AsciiOrder == " !#*-./?@AB[]ab"

AsciiCode(c) == CHOOSE i \in 1..Len(AsciiOrder) : Ch(AsciiOrder, i) = c

to_ascii_lowercase(c) == IF c = "A" THEN "a" ELSE IF c = "B" THEN "b" ELSE c

is_ascii_alphabetic(c) == c \in {"A", "B", "a", "b"}

Tok(t, c, cs) == [t |-> t, c |-> c, cs |-> cs]

\* glob::parse_char_specifiers: x-y is a range, anything else a single char
RECURSIVE parse_char_specifiers(_, _)
parse_char_specifiers(s, acc) ==
    IF s = "" THEN acc
    ELSE IF Len(s) >= 3 /\ Ch(s, 2) = "-"
         THEN parse_char_specifiers(SubSeq(s, 4, Len(s)),
                                    Append(acc, <<"CharRange", Ch(s, 1), Ch(s, 3)>>))
         ELSE parse_char_specifiers(Rest(s), Append(acc, <<"SingleChar", Ch(s, 1), Ch(s, 1)>>))

\* the offset (from 0) of the first "]" of s at or after index from, or -1
ClosePos(s, from) ==
    IF \E k \in from..Len(s) : Ch(s, k) = "]"
    THEN (CHOOSE k \in from..Len(s) :
             Ch(s, k) = "]" /\ \A m \in from..(k - 1) : Ch(s, m) # "]") - from
    ELSE -1

\* the index just after the run of "*" that starts at p
RECURSIVE StarsEnd(_, _)
StarsEnd(s, p) == IF p <= Len(s) /\ Ch(s, p) = "*" THEN StarsEnd(s, p + 1) ELSE p

\* Pattern::new's loop from index p (1-based) with the tokens pushed so far:
\* the token list, or an error (a PatternError)
RECURSIVE new_from(_, _, _)
new_from(s, p, tokens) ==
    IF p > Len(s) THEN [ok |-> TRUE, tokens |-> tokens]
    ELSE LET c == Ch(s, p) IN
      CASE c = "?" -> new_from(s, p + 1, Append(tokens, Tok("AnyChar", "", <<>>)))
        [] c = "*" ->
             LET q == StarsEnd(s, p)
                 count == q - p
             IN IF count > 2 THEN [ok |-> FALSE, tokens |-> <<>>]
                ELSE IF count = 2
                THEN IF p = 1 \/ is_separator(Ch(s, p - 1))
                     THEN IF q <= Len(s) /\ is_separator(Ch(s, q))
                          THEN new_from(s, q + 1,
                                 IF Len(tokens) > 1 /\ tokens[Len(tokens)].t = "AnyRecursiveSequence"
                                 THEN tokens
                                 ELSE Append(tokens, Tok("AnyRecursiveSequence", "", <<>>)))
                          ELSE IF q = Len(s) + 1
                          THEN new_from(s, q,
                                 IF Len(tokens) > 1 /\ tokens[Len(tokens)].t = "AnyRecursiveSequence"
                                 THEN tokens
                                 ELSE Append(tokens, Tok("AnyRecursiveSequence", "", <<>>)))
                          ELSE [ok |-> FALSE, tokens |-> <<>>]
                     ELSE [ok |-> FALSE, tokens |-> <<>>]
                ELSE new_from(s, q, Append(tokens, Tok("AnySequence", "", <<>>)))
        [] c = "[" ->
             IF p + 3 <= Len(s) /\ Ch(s, p + 1) = "!"
             THEN LET j == ClosePos(s, p + 3) IN
                  IF j >= 0
                  THEN new_from(s, p + j + 4,
                         Append(tokens, Tok("AnyExcept", "",
                            parse_char_specifiers(SubSeq(s, p + 2, p + 2 + j), <<>>))))
                  ELSE [ok |-> FALSE, tokens |-> <<>>]
             ELSE IF p + 2 <= Len(s) /\ Ch(s, p + 1) # "!"
             THEN LET j == ClosePos(s, p + 2) IN
                  IF j >= 0
                  THEN new_from(s, p + j + 3,
                         Append(tokens, Tok("AnyWithin", "",
                            parse_char_specifiers(SubSeq(s, p + 1, p + 1 + j), <<>>))))
                  ELSE [ok |-> FALSE, tokens |-> <<>>]
             ELSE [ok |-> FALSE, tokens |-> <<>>]
        [] OTHER -> new_from(s, p + 1, Append(tokens, Tok("Char", c, <<>>)))

\* Pattern::new: Ok(Pattern {original, tokens}) or Err
Pattern_new(s) ==
    LET r == new_from(s, 1, <<>>)
    IN [ok |-> r.ok, original |-> IF r.ok THEN s ELSE "", tokens |-> r.tokens]

\* Pattern::as_str
as_str(pat) == pat.original

MatchOptions(cs, rls, rlld) ==
    [case_sensitive |-> cs, require_literal_separator |-> rls,
     require_literal_leading_dot |-> rlld]

chars_eq(a, b, case_sensitive) ==
    IF ~case_sensitive THEN to_ascii_lowercase(a) = to_ascii_lowercase(b) ELSE a = b

in_char_specifiers(cs, c, options) ==
    \E k \in 1..Len(cs) :
        LET start == cs[k][2]
            end == cs[k][3]
        IN IF cs[k][1] = "SingleChar"
           THEN chars_eq(c, start, options.case_sensitive)
           ELSE \/ /\ ~options.case_sensitive
                   /\ is_ascii_alphabetic(start) /\ is_ascii_alphabetic(end)
                   /\ AsciiCode(to_ascii_lowercase(c)) >= AsciiCode(to_ascii_lowercase(start))
                   /\ AsciiCode(to_ascii_lowercase(c)) <= AsciiCode(to_ascii_lowercase(end))
                \/ /\ AsciiCode(c) >= AsciiCode(start)
                   /\ AsciiCode(c) <= AsciiCode(end)

\* Pattern::matches_from: the loop over tokens[i..] on the rest of the file
\* name; WildLoop is the `while let Some(c) = file.next()` of a wildcard token
RECURSIVE matches_from(_, _, _, _, _)
RECURSIVE WildLoop(_, _, _, _, _)
matches_from(follows_separator, file, tokens, i, options) ==
    IF i > Len(tokens)
    THEN (IF file = "" THEN "Match" ELSE "SubPatternDoesntMatch")
    ELSE LET token == tokens[i] IN
      IF token.t \in {"AnySequence", "AnyRecursiveSequence"}
      THEN LET m == matches_from(follows_separator, file, tokens, i + 1, options) IN
           IF m # "SubPatternDoesntMatch" THEN m
           ELSE WildLoop(follows_separator, file, tokens, i, options)
      ELSE IF file = "" THEN "EntirePatternDoesntMatch"
      ELSE LET c == Ch(file, 1)
               is_sep == is_separator(c)
               ok == IF /\ token.t \in {"AnyChar", "AnyWithin", "AnyExcept"}
                        /\ (\/ options.require_literal_separator /\ is_sep
                            \/ /\ follows_separator
                               /\ options.require_literal_leading_dot
                               /\ c = ".")
                     THEN FALSE
                     ELSE IF token.t = "AnyChar" THEN TRUE
                     ELSE IF token.t = "AnyWithin"
                     THEN in_char_specifiers(token.cs, c, options)
                     ELSE IF token.t = "AnyExcept"
                     THEN ~in_char_specifiers(token.cs, c, options)
                     ELSE chars_eq(c, token.c, options.case_sensitive)
           IN IF ~ok THEN "SubPatternDoesntMatch"
              ELSE matches_from(is_sep, Rest(file), tokens, i + 1, options)

WildLoop(follows_separator, file, tokens, i, options) ==
    IF file = ""
    THEN matches_from(follows_separator, file, tokens, i + 1, options)
    ELSE LET c == Ch(file, 1)
             fs == is_separator(c)
         IN IF follows_separator /\ options.require_literal_leading_dot /\ c = "."
            THEN "SubPatternDoesntMatch"
            ELSE IF tokens[i].t = "AnyRecursiveSequence" /\ ~fs
            THEN WildLoop(fs, Rest(file), tokens, i, options)
            ELSE IF tokens[i].t = "AnySequence"
                    /\ options.require_literal_separator /\ fs
            THEN "SubPatternDoesntMatch"
            ELSE LET m == matches_from(fs, Rest(file), tokens, i + 1, options) IN
                 IF m # "SubPatternDoesntMatch" THEN m
                 ELSE WildLoop(fs, Rest(file), tokens, i, options)

\* Pattern::matches_with / matches_path_with (the path is valid UTF-8 text)
matches_path_with(pat, path, options) ==
    matches_from(TRUE, path, pat.tokens, 1, options) = "Match"

(***************************************************************************)
(* std::path::Path::parent, for the paths the model draws: names of        *)
(* letters separated by "/" (no "." or ".." component is drawn).           *)
(***************************************************************************)
None == [some |-> FALSE, v |-> <<>>]

Some(v) == [some |-> TRUE, v |-> v]

\* Components::as_path after next_back: the trailing separators are not part
\* of the path that is left, the root's own separator is
RECURSIVE trim_right(_)
trim_right(s) ==
    IF Len(s) > (IF starts_with(s, "/") THEN 1 ELSE 0) /\ ends_with(s, "/")
    THEN trim_right(SubSeq(s, 1, Len(s) - 1))
    ELSE s

\* the index of the last "/" of s, or 0
LastSep(s) ==
    IF contains(s, "/")
    THEN CHOOSE k \in 1..Len(s) :
            Ch(s, k) = "/" /\ \A m \in (k + 1)..Len(s) : Ch(s, m) # "/"
    ELSE 0

parent(path) ==
    LET t == trim_right(path) IN
    IF t = "" \/ t = "/" THEN None
    ELSE Some(trim_right(SubSeq(t, 1, LastSep(t))))

(***************************************************************************)
(* Owners::of (lib.rs 121-160).                                            *)
(***************************************************************************)
\* a walk that looks at the parent only and never at a grandparent
implied_parent_only(pat, p, opts, owners) ==
    LET up == parent(p) IN
    IF up.some /\ matches_path_with(pat, up.v, opts) THEN Some(owners) ELSE None

\* lib.rs 148-156: the walk up the ancestors of p
RECURSIVE implied(_, _, _, _)
implied(pat, p, opts, owners) ==
    LET up == parent(p) IN
    IF ~up.some THEN None
    ELSE IF matches_path_with(pat, up.v, opts) THEN Some(owners)
    ELSE implied(pat, up.v, opts, owners)

\* the closure without the early return of lib.rs 142-144
mapping_owners_no_suffix_check(mapping, path) ==
    LET pat == mapping.pattern
        opts == MatchOptions(FALSE, contains(as_str(pat), "/"), FALSE)
    IN IF matches_path_with(pat, path, opts) THEN Some(mapping.owners)
       ELSE implied(pat, path, opts, mapping.owners)

\* lib.rs 130-158: the closure given to filter_map
mapping_owners(mapping, path) ==
    LET pat == mapping.pattern
        owners == mapping.owners
        opts == MatchOptions(FALSE, contains(as_str(pat), "/"), FALSE)
    IN IF matches_path_with(pat, path, opts) THEN Some(owners)
       ELSE IF ends_with(as_str(pat), "/*") THEN None
       ELSE implied(pat, path, opts, owners)

\* filter_map(..).next(): the first Some of the closure, in iteration order
RECURSIVE first_from(_, _, _)
first_from(paths, i, path) ==
    IF i > Len(paths) THEN None
    ELSE LET r == mapping_owners(paths[i], path) IN
         IF r.some THEN r ELSE first_from(paths, i + 1, path)

\* a lookup that passes over the rules that have no owner
RECURSIVE first_owned_from(_, _, _)
first_owned_from(paths, i, path) ==
    IF i > Len(paths) THEN None
    ELSE LET r == mapping_owners(paths[i], path) IN
         IF r.some /\ r.v # <<>> THEN r ELSE first_owned_from(paths, i + 1, path)

of_skipping_unowned(self, path) == first_owned_from(self.paths, 1, path)

of(self, path) == first_from(self.paths, 1, path)

(***************************************************************************)
(* pattern and from_reader (lib.rs 215-264).                               *)
(***************************************************************************)
\* the normalizer without the "**" it appends to a directory pattern
normalized_no_dir_suffix(path) ==
    trim_start_matches(IF starts_with(path, "*") \/ starts_with(path, "/")
                       THEN path
                       ELSE "**/" \o path, "/")

\* lib.rs 251-262: the text handed to Pattern::new
normalized(path) ==
    LET prefixed == IF starts_with(path, "*") \/ starts_with(path, "/")
                    THEN path
                    ELSE "**/" \o path
        trimmed == trim_start_matches(prefixed, "/")
    IN IF ends_with(trimmed, "/") THEN trimmed \o "**" ELSE trimmed

\* lib.rs 248-264: ok = FALSE is the panic of unwrap() on a PatternError
pattern(path) == Pattern_new(normalized(path))

\* a fold that gives up the rest of the line at the first unparsable token
RECURSIVE fold_owners_until_bad(_, _)
fold_owners_until_bad(elements, result) ==
    IF elements = <<>> THEN result
    ELSE LET owner == from_str(Head(elements)) IN
         IF owner.ok
         THEN fold_owners_until_bad(Tail(elements),
                  Append(result, [kind |-> owner.kind, text |-> owner.text]))
         ELSE result

\* lib.rs 231-236: the owners of a line, unparsable tokens dropped
RECURSIVE fold_owners(_, _)
fold_owners(elements, result) ==
    IF elements = <<>> THEN result
    ELSE LET owner == from_str(Head(elements)) IN
         fold_owners(Tail(elements),
                     IF owner.ok
                     THEN Append(result, [kind |-> owner.kind, text |-> owner.text])
                     ELSE result)

\* lib.rs 225: filter_map(Result::ok) keeps the lines that were read
RECURSIVE read_ok(_)
read_ok(items) ==
    IF items = <<>> THEN <<>>
    ELSE IF Head(items).ok THEN <<Head(items).line>> \o read_ok(Tail(items))
    ELSE read_ok(Tail(items))

Reverse(s) == [i \in 1..Len(s) |-> s[Len(s) + 1 - i]]

\* lib.rs 226-241: enumerate, filter and fold over the lines that were read;
\* idx counts from 0.  panicked: pattern() panicked on some rule line
RECURSIVE fold_lines(_, _, _)
fold_lines(lines, idx, paths) ==
    IF lines = <<>> THEN [panicked |-> FALSE, paths |-> paths]
    ELSE LET line == Head(lines) IN
      IF ~(~is_empty(line) /\ ~starts_with(line, "#"))
      THEN fold_lines(Tail(lines), idx + 1, paths)
      ELSE LET elements == split_whitespace(line) IN
        IF elements = <<>> THEN fold_lines(Tail(lines), idx + 1, paths)
        ELSE LET pat == pattern(Head(elements))
                 owners == fold_owners(Tail(elements), <<>>)
                 line_number == idx + 1
             IN IF ~pat.ok THEN [panicked |-> TRUE, paths |-> <<>>]
                ELSE fold_lines(Tail(lines), idx + 1,
                       Append(paths, [line |-> line_number,
                                      pattern |-> pat,
                                      owners |-> owners]))

\* from_reader without the reverse() of lib.rs 243
from_reader_unreversed(location, read) ==
    LET folded == fold_lines(read_ok(read.items), 0, <<>>) IN
    IF folded.panicked THEN [outcome |-> "panic", location |-> "", paths |-> <<>>]
    ELSE IF read.tail = "fail" THEN [outcome |-> "hang", location |-> "", paths |-> <<>>]
    ELSE [outcome |-> "ok", location |-> location, paths |-> folded.paths]

\* lib.rs 215-246.  read = [items, tail]: the results of the successive
\* read_line calls, then end of file ("eof") or an error that every further
\* call repeats ("fail"), which the filter_map never gets past.
\* outcome: "ok" with the Owners, "panic", or "hang" (no return)
from_reader(location, read) ==
    LET folded == fold_lines(read_ok(read.items), 0, <<>>) IN
    IF folded.panicked THEN [outcome |-> "panic", location |-> "", paths |-> <<>>]
    ELSE IF read.tail = "fail" THEN [outcome |-> "hang", location |-> "", paths |-> <<>>]
    ELSE [outcome |-> "ok", location |-> location, paths |-> Reverse(folded.paths)]

\* lib.rs 198-206: File::open(path).unwrap(), then from_reader
from_path(path, file) ==
    IF ~file.opens THEN [outcome |-> "panic", location |-> "", paths |-> <<>>]
    ELSE from_reader(path, file.read)

(***************************************************************************)
(* locate (lib.rs 179-195) and the files of the repository it looks at.    *)
(***************************************************************************)
CODEOWNERS == "CODEOWNERS"

Locations == {CODEOWNERS, ".github/" \o CODEOWNERS, "docs/" \o CODEOWNERS}

\* exists: the set of the locations at which a file exists
locate(exists) ==
    IF CODEOWNERS \in exists THEN Some(CODEOWNERS)
    ELSE IF (".github/" \o CODEOWNERS) \in exists THEN Some(".github/" \o CODEOWNERS)
    ELSE IF ("docs/" \o CODEOWNERS) \in exists THEN Some("docs/" \o CODEOWNERS)
    ELSE None

(***************************************************************************)
(* The inputs the model draws.                                             *)
(***************************************************************************)
Line(text) == [ok |-> TRUE, line |-> text]

\* a line whose bytes are not UTF-8: read_line consumes it and returns Err,
\* Lines yields that Err and goes on with the next line
ErrLine == [ok |-> FALSE, line |-> ""]

\* rule lines: the pattern shapes of the repository's tests, on two names
RuleLines ==
    { Line("* @a"),        \* every file
      Line("*b @b"),       \* by suffix, like *.js
      Line("a/* a@b"),     \* direct children of any a, like docs/*
      Line("/a/ @a/b"),    \* the root's directory a, like /docs/
      Line("B/ @b"),       \* any directory b (case is ignored), like apps/
      Line("a/b @a @b"),   \* a path at any depth, like foo/bar
      Line("/a"),          \* the root's a, no owner
      Line("/*b x"),       \* anchored wildcard; its only owner token is dropped
      Line("#a @a") }      \* a comment

\* lines for the parser: comments, blanks, unreadable lines, bad tokens
ParseLines ==
    { ErrLine,
      Line(""),
      Line("  "),
      Line("#a @a"),
      Line(" #a"),
      Line("a @a"),
      Line("/a/  @a/b x  a@b"),
      Line("b x"),
      Line("a** @a"),
      Line("[a @b") }

\* the sequences over S of length at most n
RECURSIVE Seqs(_, _)
Seqs(S, n) ==
    IF n = 0 THEN {<<>>}
    ELSE LET T == Seqs(S, n - 1) IN T \cup {Append(t, x) : t \in T, x \in S}

Segments == {"a", "b"}

\* the relative paths of at most n segments
RECURSIVE PathsOf(_)
PathsOf(n) ==
    IF n = 1 THEN Segments
    ELSE LET P == PathsOf(n - 1) IN P \cup {q \o "/" \o g : q \in P, g \in Segments}

Paths == PathsOf(MaxDepth)

OwnerAlphabet == {"@", "/", "a"}

PatternAlphabet == {"a", "/", "*", "["}

(***************************************************************************)
(* State.                                                                  *)
(***************************************************************************)
VARIABLES
    file,     \* the CODEOWNERS source: [opens, read |-> [items, tail]]
    pc,       \* "start", "parsed", "panic", "hang", "exit", "done"
    owners,   \* the Owners built by from_reader / from_path
    query,    \* the path last asked of Owners::of ("" before any)
    result,   \* what of returned for it
    stdout,   \* the lines main printed
    exit,     \* the exit status of the process, -1 while it has none
    tok,      \* the token handed to Owner::from_str or to pattern
    out       \* what that call returned

vars == <<file, pc, owners, query, result, stdout, exit, tok, out>>

NoOwners == [outcome |-> "none", location |-> "", paths |-> <<>>]

NoOut == [ok |-> FALSE, kind |-> "", text |-> ""]

InitRest ==
    /\ pc = "start"
    /\ owners = NoOwners
    /\ query = ""
    /\ result = None
    /\ stdout = <<>>
    /\ exit = -1

\* a readable file of rule lines
Init ==
    /\ file \in {[opens |-> TRUE, read |-> [items |-> it, tail |-> "eof"]] :
                    it \in Seqs(RuleLines, MaxLines)}
    /\ tok = ""
    /\ out = NoOut
    /\ InitRest

\* any file: it may not open, lines of it may not read, reading may fail
InitParse ==
    /\ file \in {[opens |-> o, read |-> [items |-> it, tail |-> t]] :
                    o \in BOOLEAN, it \in Seqs(ParseLines, MaxLines),
                    t \in {"eof", "fail"}}
    /\ tok = ""
    /\ out = NoOut
    /\ InitRest

InitOwner ==
    /\ file = [opens |-> FALSE, read |-> [items |-> <<>>, tail |-> "eof"]]
    /\ tok \in Strs(OwnerAlphabet, MaxTokLen) \ {""}
    /\ out = NoOut
    /\ InitRest

InitPattern ==
    /\ file = [opens |-> FALSE, read |-> [items |-> <<>>, tail |-> "eof"]]
    /\ tok \in Strs(PatternAlphabet, MaxTokLen) \ {""}
    /\ out = NoOut
    /\ InitRest

(***************************************************************************)
(* Actions.                                                                *)
(***************************************************************************)
Built(o) ==
    /\ owners' = o
    /\ pc' = IF o.outcome = "ok" THEN "parsed" ELSE o.outcome

\* a caller of the library parses an open reader (lib.rs 215)
FromReader ==
    /\ pc = "start"
    /\ file.opens
    /\ Built(from_reader("-", file.read))
    /\ UNCHANGED <<file, query, result, stdout, exit, tok, out>>

\* a caller of the library parses the file at a path (lib.rs 198)
FromPath ==
    /\ pc = "start"
    /\ Built(from_path(CODEOWNERS, file))
    /\ UNCHANGED <<file, query, result, stdout, exit, tok, out>>

\* a caller of the library asks for the owners of a path (lib.rs 121)
Of(path) ==
    /\ pc = "parsed"
    /\ query' = path
    /\ result' = of(owners, path)
    /\ UNCHANGED <<file, pc, owners, stdout, exit, tok, out>>

\* the whole run of the command line tool (main.rs 23-37): codeowners is the
\* -c option, exists the locations at which locate finds a file, path the
\* argument.  A panic ends the process with status 101.
Main(codeowners, exists, path) ==
    /\ pc = "start"
    /\ LET found == IF codeowners.some THEN codeowners ELSE locate(exists) IN
       IF ~found.some
       THEN /\ pc' = "exit"
            /\ exit' = 1
            /\ UNCHANGED <<owners, query, result, stdout>>
       ELSE LET o == from_path(found.v, file) IN
            /\ owners' = o
            /\ IF o.outcome = "ok"
               THEN LET r == of(o, path) IN
                    /\ query' = path
                    /\ result' = r
                    /\ stdout' = IF r.some
                                 THEN [i \in 1..Len(r.v) |-> r.v[i].text]
                                 ELSE <<path \o " is up for adoption">>
                    /\ pc' = "exit"
                    /\ exit' = 0
               ELSE /\ pc' = o.outcome
                    /\ exit' = IF o.outcome = "panic" THEN 101 ELSE -1
                    /\ UNCHANGED <<query, result, stdout>>
    /\ UNCHANGED <<file, tok, out>>

\* Owner::from_str on a token (lib.rs 88)
ParseOwner ==
    /\ pc = "start"
    /\ out' = from_str(tok)
    /\ pc' = "done"
    /\ UNCHANGED <<file, owners, query, result, stdout, exit, tok>>

\* pattern on a raw token (lib.rs 248): the pattern, or the panic
NormalizePattern ==
    /\ pc = "start"
    /\ LET pat == pattern(tok) IN
       /\ out' = [ok |-> pat.ok, kind |-> "Pattern", text |-> as_str(pat)]
       /\ pc' = IF pat.ok THEN "done" ELSE "panic"
    /\ UNCHANGED <<file, owners, query, result, stdout, exit, tok>>

Next ==
    \/ FromReader
    \/ \E path \in Paths : Of(path)

NextParse ==
    \/ FromReader
    \/ FromPath

NextCli ==
    \E codeowners \in {None, Some(CODEOWNERS)}, exists \in SUBSET Locations,
       path \in Paths : Main(codeowners, exists, path)

NextOwner == ParseOwner

NextPattern == NormalizePattern

\* the library on a readable file of rules
Spec == Init /\ [][Next]_vars

\* the parser on any file
SpecParse == InitParse /\ [][NextParse]_vars

\* the command line tool on any file
SpecCli == InitParse /\ [][NextCli]_vars

\* Owner::from_str on every short token
SpecOwner == InitOwner /\ [][NextOwner]_vars

\* pattern on every short raw token
SpecPattern == InitPattern /\ [][NextPattern]_vars

(***************************************************************************)
(* Properties.                                                             *)
(***************************************************************************)
\* a query has been answered
Queried == query # ""

\* the rules of the table that match the query, directly or by implication
Matching == {i \in DOMAIN owners.paths : mapping_owners(owners.paths[i], query).some}

\* the matching rule declared last
LastDeclared ==
    CHOOSE i \in Matching : \A j \in Matching : owners.paths[j].line <= owners.paths[i].line

\* the line of the file a rule was parsed from (every line of it was read)
SourceLine(rule) == file.read.items[rule.line].line

SourceToken(rule) == Head(split_whitespace(SourceLine(rule)))

\* the proper ancestors of a relative path, the root ("") among them
Ancestors(path) ==
    {SubSeq(path, 1, k - 1) : k \in {m \in 1..Len(path) : Ch(path, m) = "/"}} \cup {""}

\* the ancestors in the order parent() yields them
RECURSIVE AncestorChain(_)
AncestorChain(path) ==
    LET up == parent(path) IN
    IF up.some THEN <<up.v>> \o AncestorChain(up.v) ELSE <<>>

Depth(path) == Cardinality({m \in 1..Len(path) : Ch(path, m) = "/"}) + 1

RuleOptions(pat) == MatchOptions(FALSE, contains(as_str(pat), "/"), FALSE)

\* C1: of(path) returns the owners of the rule with the highest line number
\* among the rules that match the path directly or by implied ownership,
\* whatever the specificity of the patterns.
C1_LastDeclaredWins ==
    (pc = "parsed" /\ Queried /\ Matching # {}) =>
        /\ result = Some(owners.paths[LastDeclared].owners)
        /\ pattern(SourceToken(owners.paths[LastDeclared])) =
               owners.paths[LastDeclared].pattern

\* C1 witness: `a/*` then `*`: the later, less specific rule wins.
C1_Witness ==
    /\ pc = "parsed"
    /\ file.read.items = <<Line("a/* a@b"), Line("* @a")>>
    /\ query = "a/b"
    /\ Matching = {1, 2}
    /\ result = Some(<<[kind |-> "Username", text |-> "@a"]>>)

\* C2: of(path) is None exactly when no rule matches; when the last declared
\* matching rule has no owner, of returns a present, empty list and does not
\* fall through to an earlier rule.
C2_NoneIffNoMatch ==
    (pc = "parsed" /\ Queried) =>
        /\ (result = None) <=> (Matching = {})
        /\ (Matching # {} /\ owners.paths[LastDeclared].owners = <<>>) =>
               (result = Some(<<>>) /\ result.some)

\* C2 witness: `*` has an owner, the later `/a` has none and owns a/b.
C2_Witness ==
    /\ pc = "parsed"
    /\ file.read.items = <<Line("* @a"), Line("/a")>>
    /\ query = "a/b"
    /\ Matching = {1, 2}
    /\ result = Some(<<>>)
    /\ result # None

\* the directory a pattern ending in "/*" names matches the parent of path
DirectChild(pat, path) ==
    LET dir == Pattern_new(SubSeq(as_str(pat), 1, Len(as_str(pat)) - 2))
        up == parent(path)
    IN /\ dir.ok
       /\ up.some
       /\ matches_path_with(dir, up.v, MatchOptions(FALSE, TRUE, FALSE))

\* C3: a rule whose pattern ends with "/*" matches only the direct children
\* of the directory it names: it matches a path only directly, never by
\* implied ownership, and it never supplies the result for a path that is not
\* a direct child of such a directory.
C3_DirectChildrenOnly ==
    (pc = "parsed" /\ Queried) =>
        \A i \in DOMAIN owners.paths :
            LET pat == owners.paths[i].pattern IN
            ends_with(as_str(pat), "/*") =>
                /\ mapping_owners(owners.paths[i], query).some =>
                      /\ matches_path_with(pat, query, RuleOptions(pat))
                      /\ DirectChild(pat, query)
                /\ ~DirectChild(pat, query) => ~(i \in Matching /\ i = LastDeclared)

\* C3 witness: a/b/a is two levels beneath a: `a/*` does not own it and the
\* result comes from `*`.
C3_Witness ==
    /\ pc = "parsed"
    /\ file.read.items = <<Line("* @a"), Line("a/* a@b")>>
    /\ query = "a/b/a"
    /\ Matching = {2}
    /\ result = Some(<<[kind |-> "Username", text |-> "@a"]>>)

\* a pattern matches the path or an ancestor of it from the root, segment by
\* segment (no wildcard standing for a separator)
RootedOwns(pat, path) ==
    \E q \in {path} \cup Ancestors(path) :
        matches_path_with(pat, q, MatchOptions(FALSE, TRUE, FALSE))

\* C4: a rule whose source token starts with "/" owns only the paths its
\* pattern matches from the repository root, and the same token without the
\* leading "/" owns those paths beneath any leading directory.
C4_AnchoredFromRootOnly ==
    (pc = "parsed" /\ Queried) =>
        \A i \in DOMAIN owners.paths :
            LET rule == owners.paths[i]
                token == SourceToken(rule)
                bare == [line |-> rule.line, owners |-> rule.owners,
                         pattern |-> pattern(Rest(token))]
            IN (starts_with(token, "/") /\ mapping_owners(rule, query).some) =>
                  /\ RootedOwns(rule.pattern, query)
                  /\ (bare.pattern.ok /\ ~starts_with(Rest(token), "*")) =>
                        \A d \in Segments :
                            mapping_owners(bare, d \o "/" \o query).some

\* C5: a rule whose normalized pattern does not end with "/*" matches a path
\* exactly when its pattern matches the path or one of its proper ancestors,
\* up to the root; the walk visits each ancestor once and ends at the root.
C5_ImpliedChildren ==
    (pc = "parsed" /\ Queried) =>
        /\ \A i \in DOMAIN owners.paths :
              LET pat == owners.paths[i].pattern IN
              ~ends_with(as_str(pat), "/*") =>
                  (mapping_owners(owners.paths[i], query).some <=>
                      \E q \in {query} \cup Ancestors(query) :
                          matches_path_with(pat, q, RuleOptions(pat)))
        /\ LET chain == AncestorChain(query) IN
              /\ Len(chain) = Depth(query)
              /\ {chain[k] : k \in 1..Len(chain)} = Ancestors(query)
              /\ chain[Len(chain)] = ""

\* C5 witness: `a/b` owns a/b/a, as foo/bar owns foo/bar/baz.rs.
C5_Witness ==
    /\ pc = "parsed"
    /\ file.read.items = <<Line("a/b @a @b")>>
    /\ query = "a/b/a"
    /\ ~matches_path_with(owners.paths[1].pattern, query,
                          RuleOptions(owners.paths[1].pattern))
    /\ result = Some(<<[kind |-> "Username", text |-> "@a"],
                       [kind |-> "Username", text |-> "@b"]>>)

\* C6: every accepted token has the form of its variant: a Team starts with
\* "@" and has text on both sides of a "/", a Username starts with "@" and
\* contains no "/", an Email has an "@" that is not its first character with
\* text on both sides; the text is kept as it is.
C6_ClassifiedForms ==
    pc = "done" =>
        /\ out.ok => out.text = tok
        /\ out.kind = "Team" =>
              /\ starts_with(tok, "@")
              /\ \E j \in 2..(Len(tok) - 1) : Ch(tok, j) = "/"
        /\ out.kind = "Username" =>
              /\ starts_with(tok, "@")
              /\ ~contains(tok, "/")
        /\ out.kind = "Email" =>
              \E j \in 2..(Len(tok) - 1) : Ch(tok, j) = "@"
        /\ out.kind \in {"Team", "Username", "Email", "Err"}
        /\ out.ok <=> out.kind # "Err"

\* from_reader or from_path has run
Ran == owners.outcome # "none"

items == file.read.items

\* the file did not open, or a read of it failed
ReadFails ==
    \/ ~file.opens
    \/ \E k \in DOMAIN items : ~items[k].ok
    \/ file.read.tail = "fail"

\* the positions in the stream of the lines that were read, are neither
\* empty nor comments, and have a pattern token
RuleLineIdx ==
    {k \in DOMAIN items :
        /\ items[k].ok
        /\ items[k].line # ""
        /\ ~starts_with(items[k].line, "#")
        /\ split_whitespace(items[k].line) # <<>>}

\* the n-th smallest element of a set of numbers
Nth(S, n) == CHOOSE k \in S : Cardinality({m \in S : m < k}) = n - 1

\* the position in the stream of the line the i-th stored rule comes from
LineOfRule(i) == Nth(RuleLineIdx, Len(owners.paths) + 1 - i)

\* the owner tokens of a line that classify, in order
ClassifiedOwners(line) ==
    LET kept == SelectSeq(Tail(split_whitespace(line)), LAMBDA t : from_str(t).ok)
    IN [n \in 1..Len(kept) |-> [kind |-> from_str(kept[n]).kind, text |-> kept[n]]]

\* some rule line has a pattern token that is no glob once normalized
BadPattern ==
    \E k \in RuleLineIdx : ~pattern(Head(split_whitespace(items[k].line))).ok

\* C7, as claimed: parsing fails only when the stream cannot be read; no
\* pattern token and no owner token aborts from_reader, every rule line that
\* was read becomes a rule.
C7_OnlyReadFailureAborts ==
    Ran =>
        /\ owners.outcome = "panic" => ReadFails
        /\ (file.opens /\ file.read.tail = "eof") =>
              /\ owners.outcome = "ok"
              /\ Len(owners.paths) = Cardinality(RuleLineIdx)

\* C7, amended: from_reader aborts exactly when the normalized pattern token
\* of some rule line is not a valid glob (from_path also when the file does
\* not open); no owner token aborts it: otherwise every rule line that was
\* read becomes one rule, whose owners are the line's classifiable owner
\* tokens in order.
C7_OnlyBadPatternAborts ==
    Ran =>
        /\ owners.outcome = "panic" <=> (~file.opens \/ BadPattern)
        /\ owners.outcome = "ok" =>
              /\ Len(owners.paths) = Cardinality(RuleLineIdx)
              /\ \A i \in DOMAIN owners.paths :
                    LET line == items[LineOfRule(i)].line IN
                    /\ owners.paths[i].pattern = pattern(Head(split_whitespace(line)))
                    /\ owners.paths[i].owners = ClassifiedOwners(line)

\* C7 witness: a line with an unclassifiable token between two owners, and a
\* line whose only owner token is unclassifiable, are both parsed.
C7_Witness ==
    /\ pc = "parsed"
    /\ items = <<Line("/a/  @a/b x  a@b"), Line("b x")>>
    /\ Len(owners.paths) = 2
    /\ owners.paths[1].owners = <<>>
    /\ owners.paths[2].owners = <<[kind |-> "Team", text |-> "@a/b"],
                                  [kind |-> "Email", text |-> "a@b"]>>

\* C8: when reading the source fails, from_reader and from_path report the
\* failure instead of returning a table, and the command line tool ends
\* with a status other than 0.
C8_ReadFailureIsFatal ==
    (Ran /\ ReadFails) =>
        /\ owners.outcome # "ok"
        /\ pc = "exit" => exit # 0

\* C10: one rule for each line that is neither empty nor a comment and has
\* a pattern token; each rule carries the 1-based position of its line in
\* the stream; the stored line numbers are strictly decreasing.
C10_RulePerLineNumbered ==
    owners.outcome = "ok" =>
        /\ Len(owners.paths) = Cardinality(RuleLineIdx)
        /\ \A i \in DOMAIN owners.paths : owners.paths[i].line = LineOfRule(i)
        /\ \A i, j \in DOMAIN owners.paths :
              i < j => owners.paths[i].line > owners.paths[j].line

\* the three steps of the normalizer, as described
PrependStep(t) == IF Ch(t, 1) \in {"*", "/"} THEN t ELSE "**/" \o t

StripOneSlash(t) == IF Ch(t, 1) = "/" THEN Rest(t) ELSE t

LeadingSlashes(t) ==
    Cardinality({k \in 1..Len(t) : \A m \in 1..k : Ch(t, m) = "/"})

StripAllSlashes(t) == SubSeq(t, LeadingSlashes(t) + 1, Len(t))

AppendStep(t) == IF Len(t) > 0 /\ Ch(t, Len(t)) = "/" THEN t \o "**" ELSE t

\* C9, as claimed: the normalizer's output is the token with "**/" put in
\* front unless it starts with "*" or "/", then a single leading "/"
\* removed, then "**" appended if it ends with "/".
C9_SingleSlashStripped ==
    (pc = "done" /\ out.kind = "Pattern") =>
        out.text = AppendStep(StripOneSlash(PrependStep(tok)))

\* C9, amended: the normalizer's output, when it returns one (it panics when
\* the text is not a valid glob), is the token with "**/" put in front unless
\* it starts with "*" or "/", then every leading "/" removed, then "**"
\* appended if it ends with "/".
C9_AllSlashesStripped ==
    (pc # "start" /\ out.kind = "Pattern") =>
        LET text == AppendStep(StripAllSlashes(PrependStep(tok))) IN
        /\ out.ok <=> Pattern_new(text).ok
        /\ out.ok => out.text = text
        /\ pc = (IF out.ok THEN "done" ELSE "panic")

\* C9 witness: //a/ loses both slashes and gains the "**".
C9_Witness ==
    /\ pc = "done"
    /\ tok = "//a/"
    /\ out.text = "a/**"

====
